---- MODULE Spec2Model ----
(***************************************************************************)
(* A model of the SciPy teaching notebook 2_ScipyLibrary.                  *)
(*                                                                         *)
(* Spec runs the code cells of the notebook top to bottom, one statement   *)
(* per step, against the kernel's global namespace.  While an odeint       *)
(* statement runs, the integrator calls the right-hand-side function it    *)
(* was handed (dx or dy) on a state and a time of its own choosing; one    *)
(* such call per statement is recorded, on inputs drawn from bounded sets. *)
(*                                                                         *)
(* Python floats are modelled as exact rationals <<n, d>> in lowest terms. *)
(* Angles are counted in quarter turns (k stands for k*pi/2), the points   *)
(* at which cos and sin are exactly 0, 1 or -1.                            *)
(***************************************************************************)
EXTENDS Integers, Sequences, FiniteSets, TLC

VARIABLES pc, status, error, ns, lastSec, lastReads, assignedBy,
          glob, call, result

vars == <<pc, status, error, ns, lastSec, lastReads, assignedBy,
          glob, call, result>>

nbvars == <<pc, status, error, ns, lastSec, lastReads, assignedBy>>

funvars == <<glob, call, result>>

(***************************************************************************)
(* Bounds of the sampled inputs of dx and dy.                              *)
(***************************************************************************)
MaxVal == 1

MaxAngle == 2

MaxT == 1

(***************************************************************************)
(* Rational arithmetic standing for Python's float arithmetic.             *)
(***************************************************************************)
AbsInt(a) == IF a < 0 THEN -a ELSE a

RECURSIVE GCD(_, _)
GCD(a, b) == IF b = 0 THEN a ELSE GCD(b, a % b)

R(n, d) ==
    LET s == IF d < 0 THEN -1 ELSE 1
        k == GCD(AbsInt(n), AbsInt(d))
    IN  <<(s * n) \div k, (s * d) \div k>>

I(n) == <<n, 1>>

RAdd(a, b) == R(a[1] * b[2] + b[1] * a[2], a[2] * b[2])

RNeg(a) == <<-a[1], a[2]>>

RSub(a, b) == RAdd(a, RNeg(b))

RMul(a, b) == R(a[1] * b[1], a[2] * b[2])

RDiv(a, b) == R(a[1] * b[2], a[2] * b[1])

RSq(a) == RMul(a, a)

RLeq(a, b) == a[1] * b[2] <= b[1] * a[2]

(* cos and sin (imported by %pylab) on whole numbers of quarter turns *)
Cos(a) == I(<<1, 0, -1, 0>>[(a[1] % 4) + 1])

Sin(a) == I(<<0, 1, 0, -1>>[(a[1] % 4) + 1])

(***************************************************************************)
(* Name resolution inside a function body: a parameter or a name the body  *)
(* assigns is local, every other name is read from the global namespace.   *)
(***************************************************************************)
Lookup(loc, G, name) == IF name \in DOMAIN loc THEN loc[name] ELSE G[name]

GlobalNames == {"g", "L", "m", "w0"}

(* dx with a slip in the sign of the coupling term of dx4 *)
dx_sign(G, x, t) ==
    LET c   == Cos(RSub(x[1], x[2]))
        s   == Sin(RSub(x[1], x[2]))
        k   == RDiv(I(6), RMul(G.m, RSq(G.L)))
        h   == RMul(RMul(R(-1, 2), G.m), RSq(G.L))
        den == RSub(I(16), RMul(I(9), RSq(c)))
        dx1 == RDiv(RMul(k, RSub(RMul(I(2), x[3]), RMul(RMul(I(3), c), x[4]))), den)
        dx2 == RDiv(RMul(k, RSub(RMul(I(8), x[4]), RMul(RMul(I(3), c), x[3]))), den)
        dx3 == RMul(h, RAdd(RMul(RMul(dx1, dx2), s),
                            RMul(RMul(I(3), RDiv(G.g, G.L)), Sin(x[1]))))
        dx4 == RMul(h, RAdd(RMul(RMul(dx1, dx2), s),
                            RMul(RDiv(G.g, G.L), Sin(x[2]))))
    IN  <<dx1, dx2, dx3, dx4>>

(* The right-hand side of the pendulum ODE.  x is the state vector         *)
(* (Python x[0..3] is x[1..4] here); g, L and m are globals.               *)
dx(G, x, t) ==
    LET loc == [x |-> x, t |-> t]
        xx  == Lookup(loc, G, "x")
        x1  == xx[1]
        x2  == xx[2]
        x3  == xx[3]
        x4  == xx[4]
        m   == Lookup(loc, G, "m")
        L   == Lookup(loc, G, "L")
        g   == Lookup(loc, G, "g")
        c   == Cos(RSub(x1, x2))
        s   == Sin(RSub(x1, x2))
        dx1 == RDiv(RMul(RDiv(I(6), RMul(m, RSq(L))),
                         RSub(RMul(I(2), x3), RMul(RMul(I(3), c), x4))),
                    RSub(I(16), RMul(I(9), RSq(c))))
        dx2 == RDiv(RMul(RDiv(I(6), RMul(m, RSq(L))),
                         RSub(RMul(I(8), x4), RMul(RMul(I(3), c), x3))),
                    RSub(I(16), RMul(I(9), RSq(c))))
        dx3 == RMul(RMul(RMul(R(-1, 2), m), RSq(L)),
                    RAdd(RMul(RMul(dx1, dx2), s),
                         RMul(RMul(I(3), RDiv(g, L)), Sin(x1))))
        dx4 == RMul(RMul(RMul(R(-1, 2), m), RSq(L)),
                    RAdd(RMul(RMul(RNeg(dx1), dx2), s),
                         RMul(RDiv(g, L), Sin(x2))))
    IN  <<dx1, dx2, dx3, dx4>>

(* dy reading the frequency from the global w0 instead of its argument *)
dy_global(G, y, t, zeta, w0) ==
    LET x  == y[1]
        p  == y[2]
        w  == G["w0"]
    IN  <<p, RSub(RMul(RMul(RMul(I(-2), zeta), w), p), RMul(RSq(w), x))>>

(* dy returning the two derivatives in the wrong order *)
dy_swapped(G, y, t, zeta, w0) ==
    <<RSub(RMul(RMul(RMul(I(-2), zeta), w0), y[2]), RMul(RSq(w0), y[1])), y[2]>>

(* The right-hand side of the damped oscillator ODE.  Every name of the    *)
(* body is a parameter or assigned in the body, so none is global.         *)
dy(G, y, t, zeta, w0) ==
    LET loc0 == [y |-> y, t |-> t, zeta |-> zeta, w0 |-> w0]
        yy   == Lookup(loc0, G, "y")
        loc1 == [y |-> y, t |-> t, zeta |-> zeta, w0 |-> w0,
                 x |-> yy[1], p |-> yy[2]]
        ddx  == Lookup(loc1, G, "p")
        dp   == RSub(RMul(RMul(RMul(I(-2), Lookup(loc1, G, "zeta")),
                                Lookup(loc1, G, "w0")),
                           Lookup(loc1, G, "p")),
                     RMul(RSq(Lookup(loc1, G, "w0")), Lookup(loc1, G, "x")))
    IN  <<ddx, dp>>

(***************************************************************************)
(* Sampled inputs.                                                         *)
(***************************************************************************)
Vals == {I(v) : v \in (-MaxVal)..MaxVal}

Angles == {I(k) : k \in 0..MaxAngle}

Times == {I(k) : k \in 0..MaxT}

(* stand-ins for the value 2*pi*1.0 of w0 *)
Freqs == {I(k) : k \in 1..(MaxVal + 1)}

NoCall == [fn |-> "none", y |-> <<>>, t |-> I(0), zeta |-> I(0), w0 |-> I(0)]

NoGlobals == [n \in {} |-> I(0)]

(* the calls odeint(dx, x0, t) may make *)
DxCalls == {[fn |-> "dx", y |-> <<a1, a2, p1, p2>>, t |-> t,
             zeta |-> I(0), w0 |-> I(0)] :
            a1 \in Angles, a2 \in Angles, p1 \in Vals, p2 \in Vals, t \in Times}

(* the calls odeint(dy, y0, t, args=(zeta, w0)) may make *)
DyCalls(zeta, w0) ==
    {[fn |-> "dy", y |-> <<x, p>>, t |-> t, zeta |-> zeta, w0 |-> w0] :
     x \in Vals, p \in Vals, t \in Times}

(***************************************************************************)
(* The code cells.  A statement records the source line, the names it      *)
(* binds in the global namespace (tg), the global names it reads (rd),     *)
(* whether it calls into a library (lib), and how the bound value is       *)
(* obtained (op, arg, src, src2).                                          *)
(***************************************************************************)
St(line, kind, tg, rd, lib, op, arg, src, src2) ==
    [line |-> line, kind |-> kind, tg |-> tg, rd |-> rd, lib |-> lib,
     op |-> op, arg |-> arg, src |-> src, src2 |-> src2, cell |-> 0, sec |-> ""]

Imp(line, tg) == St(line, "import", tg, {}, TRUE, "opaque", <<>>, "", "")

Def(line, name) == St(line, "def", {name}, {}, FALSE, "opaque", <<>>, "", "")

Asg(line, tg, rd, lib) == St(line, "assign", tg, rd, lib, "opaque", <<>>, "", "")

Ex(line, rd, lib) == St(line, "expr", {}, rd, lib, "opaque", <<>>, "", "")

Cell(c, sec, stmts) ==
    [i \in 1..Len(stmts) |-> [stmts[i] EXCEPT !.cell = c, !.sec = sec]]

(* global names read by the bodies of the functions the cells define *)
DxGlobals == {"g", "L", "m", "cos", "sin"}

DyGlobals == {}

FOptGlobals == {}

FInterpGlobals == {"sin"}

(***************************************************************************)
(* Imports.                                                                *)
(***************************************************************************)
SetupCells ==
    Cell(1, "import", <<Imp(49, {"pi", "cos", "sin", "linspace", "arange",
                                 "subplots", "randn", "where"}),
                        Imp(50, {"Image"})>>)
    \o Cell(2, "import", <<Imp(59, {})>>)
    \o Cell(3, "import", <<Imp(75, {"la"})>>)
    \o Cell(4, "import", <<Imp(97, {"odeint", "ode"})>>)

(***************************************************************************)
(* Example: double pendulum.                                               *)
(***************************************************************************)
PendulumCells ==
    Cell(5, "pendulum", <<Ex(145, {"Image"}, TRUE)>>)
    \o Cell(6, "pendulum",
            <<St(179, "assign", {"g"}, {}, FALSE, "const", <<982, 100>>, "", ""),
              St(180, "assign", {"L"}, {}, FALSE, "const", <<1, 2>>, "", ""),
              St(181, "assign", {"m"}, {}, FALSE, "const", <<1, 10>>, "", ""),
              Def(183, "dx")>>)
    \o Cell(7, "pendulum", <<Asg(204, {"x0"}, {"pi"}, FALSE)>>)
    \o Cell(8, "pendulum",
            <<St(214, "assign", {"t"}, {"linspace"}, TRUE,
                 "linspace", <<0, 10, 250>>, "", "")>>)
    \o Cell(9, "pendulum",
            <<St(224, "assign", {"x"}, {"odeint", "dx", "x0", "t"} \cup DxGlobals,
                 TRUE, "odeint", <<>>, "t", "dx")>>)
    \o Cell(10, "pendulum", <<Ex(235, {"x"}, FALSE)>>)
    \o Cell(11, "pendulum",
            <<Asg(253, {"fig", "axes"}, {"subplots"}, TRUE),
              Ex(254, {"axes", "t", "x"}, TRUE),
              Ex(255, {"axes", "t", "x"}, TRUE),
              St(258, "assign", {"x1"}, {"L", "sin", "x"}, TRUE, "like", <<>>, "x", ""),
              St(259, "assign", {"y1"}, {"L", "cos", "x"}, TRUE, "like", <<>>, "x", ""),
              St(261, "assign", {"x2"}, {"x1", "L", "sin", "x"}, TRUE, "like", <<>>, "x", ""),
              St(262, "assign", {"y2"}, {"y1", "L", "cos", "x"}, TRUE, "like", <<>>, "x", ""),
              Ex(264, {"axes", "x1", "y1"}, TRUE),
              Ex(265, {"axes", "x2", "y2"}, TRUE),
              Ex(266, {"axes"}, TRUE),
              Ex(267, {"axes"}, TRUE)>>)

(***************************************************************************)
(* Example: damped harmonic oscillator.                                    *)
(***************************************************************************)
DampedOdeint(line, name, zn, zd) ==
    St(line, "assign", {name}, {"odeint", "dy", "y0", "t", "w0"} \cup DyGlobals,
       TRUE, "odeint", <<zn, zd>>, "t", "dy")

DampedCells ==
    Cell(12, "damped", <<Def(302, "dy")>>)
    \o Cell(13, "damped", <<Asg(321, {"y0"}, {}, FALSE)>>)
    \o Cell(14, "damped",
            <<St(331, "assign", {"t"}, {"linspace"}, TRUE,
                 "linspace", <<0, 10, 1000>>, "", ""),
              Asg(332, {"w0"}, {"pi"}, FALSE)>>)
    \o Cell(15, "damped",
            <<DampedOdeint(343, "y1", 0, 10), DampedOdeint(344, "y2", 2, 10),
              DampedOdeint(345, "y3", 10, 10), DampedOdeint(346, "y4", 50, 10)>>)
    \o Cell(16, "damped",
            <<Asg(355, {"fig", "ax"}, {"subplots"}, TRUE),
              Ex(356, {"ax", "t", "y1"}, TRUE),
              Ex(357, {"ax", "t", "y2"}, TRUE),
              Ex(358, {"ax", "t", "y3"}, TRUE),
              Ex(359, {"ax", "t", "y4"}, TRUE),
              Ex(360, {"ax"}, TRUE)>>)

(***************************************************************************)
(* Fourier transform.                                                      *)
(***************************************************************************)
(* the transform taken of the pendulum trajectory x instead of y2 *)
FFT_F_ofX == St(401, "assign", {"F"}, {"fft", "x"}, TRUE, "like", <<>>, "x", "")

FFT_F == St(401, "assign", {"F"}, {"fft", "y2"}, TRUE, "like", <<>>, "y2", "")

FourierCells ==
    Cell(17, "import", <<Imp(380, {"fft", "fftfreq"})>>)
    \o Cell(18, "fourier",
            <<St(396, "assign", {"N"}, {"t"}, FALSE, "len", <<>>, "t", ""),
              Asg(397, {"dt"}, {"t"}, FALSE),
              FFT_F,
              St(404, "assign", {"w"}, {"fftfreq", "N", "dt"}, TRUE,
                 "fftfreq", <<>>, "N", "")>>)
    \o Cell(19, "fourier",
            <<Asg(413, {"fig", "ax"}, {"subplots"}, TRUE),
              Ex(414, {"ax", "w", "F"}, TRUE)>>)
    \o Cell(20, "fourier",
            <<Asg(430, {"indices"}, {"where", "w"}, TRUE),
              Asg(431, {"w_pos"}, {"w", "indices"}, FALSE),
              Asg(432, {"F_pos"}, {"F", "indices"}, FALSE)>>)
    \o Cell(21, "fourier",
            <<Asg(441, {"fig", "ax"}, {"subplots"}, TRUE),
              Ex(442, {"ax", "w_pos", "F_pos"}, TRUE),
              Ex(443, {"ax"}, TRUE)>>)

(***************************************************************************)
(* Optimization.                                                           *)
(***************************************************************************)
(* the curve plotted against the time grid t of an earlier example *)
OptPlot_overT == Ex(500, {"ax", "t", "f"} \cup FOptGlobals, TRUE)

OptPlot == Ex(500, {"ax", "x", "f"} \cup FOptGlobals, TRUE)

OptimizationCells ==
    Cell(22, "import", <<Imp(470, {"optimize"})>>)
    \o Cell(23, "optimization", <<Def(488, "f")>>)
    \o Cell(24, "optimization",
            <<Asg(498, {"fig", "ax"}, {"subplots"}, TRUE),
              St(499, "assign", {"x"}, {"linspace"}, TRUE,
                 "linspace", <<-5, 3, 100>>, "", ""),
              OptPlot>>)
    \o Cell(25, "optimization",
            <<Asg(516, {"x_min"}, {"optimize", "f"} \cup FOptGlobals, TRUE),
              Ex(517, {"x_min"}, FALSE)>>)
    \o Cell(26, "optimization", <<Ex(526, {"optimize", "f"} \cup FOptGlobals, TRUE)>>)
    \o Cell(27, "optimization", <<Ex(542, {"optimize", "f"} \cup FOptGlobals, TRUE)>>)
    \o Cell(28, "optimization", <<Ex(551, {"optimize", "f"} \cup FOptGlobals, TRUE)>>)

(***************************************************************************)
(* Interpolation.                                                          *)
(***************************************************************************)
(* the evaluation grid running one past the last sample position *)
InterpX_past == St(589, "assign", {"x"}, {"linspace"}, TRUE,
                   "linspace", <<0, 10, 100>>, "", "")

InterpX == St(589, "assign", {"x"}, {"linspace"}, TRUE,
              "linspace", <<0, 9, 100>>, "", "")

InterpolationCells ==
    Cell(29, "import", <<Imp(569, {"interp1d"})>>)
    \o Cell(30, "interpolation", <<Def(578, "f")>>)
    \o Cell(31, "interpolation",
            <<St(588, "assign", {"n"}, {"arange"}, TRUE, "arange", <<0, 10>>, "", ""),
              InterpX,
              St(591, "assign", {"y_meas"}, {"f", "n", "randn"} \cup FInterpGlobals,
                 TRUE, "like", <<>>, "n", ""),
              St(592, "assign", {"y_real"}, {"f", "x"} \cup FInterpGlobals,
                 TRUE, "like", <<>>, "x", ""),
              St(594, "assign", {"linear_interpolation"}, {"interp1d", "n", "y_meas"},
                 TRUE, "interp1d", <<>>, "n", ""),
              St(595, "assign", {"y_interp1"}, {"linear_interpolation", "x"},
                 TRUE, "callinterp", <<>>, "x", "linear_interpolation"),
              St(597, "assign", {"cubic_interpolation"}, {"interp1d", "n", "y_meas"},
                 TRUE, "interp1d", <<>>, "n", ""),
              St(598, "assign", {"y_interp2"}, {"cubic_interpolation", "x"},
                 TRUE, "callinterp", <<>>, "x", "cubic_interpolation")>>)
    \o Cell(32, "interpolation",
            <<Asg(607, {"fig", "ax"}, {"subplots"}, TRUE),
              Ex(608, {"ax", "n", "y_meas"}, TRUE),
              Ex(609, {"ax", "x", "y_real"}, TRUE),
              Ex(610, {"ax", "x", "y_interp1"}, TRUE),
              Ex(611, {"ax", "x", "y_interp2"}, TRUE),
              Ex(612, {"ax"}, TRUE)>>)

(***************************************************************************)
(* Statistics.                                                             *)
(***************************************************************************)
(* the sample positions bound to the name N of the Fourier example *)
StatsN_asN == St(652, "assign", {"N"}, {"arange"}, TRUE, "arange", <<0, 15>>, "", "")

StatsN == St(652, "assign", {"n"}, {"arange"}, TRUE, "arange", <<0, 15>>, "", "")

StatisticsCells ==
    Cell(33, "import", <<Imp(632, {"stats"})>>)
    \o Cell(34, "statistics", <<Asg(643, {"X"}, {"stats"}, TRUE)>>)
    \o Cell(35, "statistics",
            <<StatsN,
              Asg(654, {"fig", "axes"}, {"subplots"}, TRUE),
              Ex(657, {"axes", "n", "X"}, TRUE),
              Ex(660, {"axes", "n", "X"}, TRUE),
              Ex(663, {"axes", "X"}, TRUE)>>)
    \o Cell(36, "statistics", <<Asg(673, {"Y"}, {"stats"}, TRUE)>>)
    \o Cell(37, "statistics",
            <<St(682, "assign", {"x"}, {"linspace"}, TRUE,
                 "linspace", <<-5, 5, 100>>, "", ""),
              Asg(684, {"fig", "axes"}, {"subplots"}, TRUE),
              Ex(687, {"axes", "x", "Y"}, TRUE),
              Ex(690, {"axes", "x", "Y"}, TRUE),
              Ex(693, {"axes", "Y"}, TRUE)>>)
    \o Cell(38, "statistics", <<Ex(709, {"X"}, TRUE)>>)
    \o Cell(39, "statistics", <<Ex(718, {"Y"}, TRUE)>>)
    \o Cell(40, "statistics",
            <<Asg(741, {"t_statistic", "p_value"}, {"stats", "X"}, TRUE),
              Ex(743, {"t_statistic"}, FALSE),
              Ex(744, {"p_value"}, FALSE)>>)
    \o Cell(41, "statistics", <<Ex(767, {"stats", "Y"}, TRUE)>>)
    \o Cell(42, "statistics", <<Ex(783, {"Y"}, TRUE)>>)
    \o Cell(43, "statistics", <<Ex(792, {"stats", "Y"}, TRUE)>>)

(* the code cells in notebook order *)
Program ==
    SetupCells \o PendulumCells \o DampedCells \o FourierCells
    \o OptimizationCells \o InterpolationCells \o StatisticsCells

NStmts == Len(Program)

Names == UNION {Program[i].tg \cup Program[i].rd : i \in 1..NStmts}

Sections == {"pendulum", "damped", "fourier", "optimization",
             "interpolation", "statistics"}

(***************************************************************************)
(* Values.  A bound name carries the section whose cell bound it, the      *)
(* length of its array (-1 if it is no array or the length is not known)   *)
(* and, where the code fixes them, its numbers.                            *)
(***************************************************************************)
Unbound == [sec |-> "", len |-> -1, pts |-> <<>>]

(* linspace(start, stop, num): num points start + i*step, the last one set *)
(* to stop                                                                 *)
Linspace(start, stop, num) ==
    [i \in 1..num |->
        IF i = num THEN I(stop)
        ELSE RAdd(RMul(I(i - 1), R(stop - start, num - 1)), I(start))]

(* arange(a, b): the integers a, ..., b-1 *)
Arange(a, b) == [i \in 1..(b - a) |-> I(a + i - 1)]

(* an interpolant is callable between the first and the last sample position *)
InRange(x, f) ==
    \A i \in 1..Len(x.pts) : RLeq(f.pts[1], x.pts[i]) /\ RLeq(x.pts[i], f.pts[2])

Value(st, G) ==
    CASE st.op = "const"      -> [len |-> -1, pts |-> <<R(st.arg[1], st.arg[2])>>]
      [] st.op = "linspace"   -> [len |-> st.arg[3],
                                  pts |-> Linspace(st.arg[1], st.arg[2], st.arg[3])]
      [] st.op = "arange"     -> [len |-> st.arg[2] - st.arg[1],
                                  pts |-> Arange(st.arg[1], st.arg[2])]
      [] st.op = "odeint"     -> [len |-> G[st.src].len, pts |-> <<>>]
      [] st.op = "like"       -> [len |-> G[st.src].len, pts |-> <<>>]
      [] st.op = "callinterp" -> [len |-> G[st.src].len, pts |-> <<>>]
      [] st.op = "len"        -> [len |-> -1, pts |-> <<I(G[st.src].len)>>]
      [] st.op = "fftfreq"    -> [len |-> G[st.src].pts[1][1], pts |-> <<>>]
      [] st.op = "interp1d"   -> [len |-> -1,
                                  pts |-> <<G[st.src].pts[1],
                                            G[st.src].pts[Len(G[st.src].pts)]>>]
      [] OTHER                -> [len |-> -1, pts |-> <<>>]

(* a statement that cannot complete: it reads an unbound name, or calls an *)
(* interpolant outside the range of its sample positions                   *)
MustRaise(st, G) ==
    \/ \E n \in st.rd : G[n].sec = ""
    \/ /\ st.op = "callinterp"
       /\ ~InRange(G[st.src], G[st.src2])

(* a call into a library may raise *)
MayRaise(st, G) == st.lib \/ MustRaise(st, G)

(* a cell in which the failing call is wrapped in try/except: pass *)
InTry_odeint(st) == st.op = "odeint"

(* no statement of any cell is inside a try block *)
InTry(st) == FALSE

Reads(st, G) == {[name |-> n, binder |-> G[n].sec] : n \in {k \in st.rd : G[k].sec # ""}}

Bind(st, G) ==
    [n \in Names |-> IF n \in st.tg
                     THEN [sec |-> st.sec, len |-> Value(st, G).len,
                           pts |-> Value(st, G).pts]
                     ELSE G[n]]

(* the numbers the global names g, L, m and w0 stand for, where bound;    *)
(* w stands for the value of w0                                            *)
NumGlobals(G, w) ==
    [n \in {k \in GlobalNames : G[k].sec # ""} |->
        IF n = "w0" THEN w ELSE G[n].pts[1]]

(***************************************************************************)
(* Running the notebook top to bottom.                                     *)
(***************************************************************************)
Init ==
    /\ pc = 1
    /\ status = "running"
    /\ error = [line |-> 0, cell |-> 0]
    /\ ns = [n \in Names |-> Unbound]
    /\ lastSec = ""
    /\ lastReads = {}
    /\ assignedBy = [n \in Names |-> {}]
    /\ glob = NoGlobals
    /\ call = NoCall
    /\ result = <<>>

Advance(st) ==
    /\ pc' = pc + 1
    /\ status' = IF pc + 1 > NStmts THEN "done" ELSE "running"
    /\ lastSec' = st.sec
    /\ lastReads' = Reads(st, ns)

(* odeint evaluates the right-hand side before it returns *)
Complete(kind) ==
    /\ status = "running"
    /\ Program[pc].kind = kind
    /\ ~MustRaise(Program[pc], ns)
    /\ Program[pc].op = "odeint" => call.fn # "none"
    /\ Advance(Program[pc])
    /\ ns' = Bind(Program[pc], ns)
    /\ assignedBy' = [n \in Names |->
                        IF n \in Program[pc].tg
                        THEN assignedBy[n] \cup {Program[pc].sec}
                        ELSE assignedBy[n]]
    /\ glob' = NoGlobals
    /\ call' = NoCall
    /\ result' = <<>>
    /\ UNCHANGED error

RunImport == Complete("import")

RunDef == Complete("def")

RunAssign == Complete("assign")

RunExpr == Complete("expr")

(* odeint(dx, x0, t) calls dx(x, t) *)
CallDx ==
    /\ status = "running"
    /\ Program[pc].op = "odeint"
    /\ Program[pc].src2 = "dx"
    /\ ~MustRaise(Program[pc], ns)
    /\ call.fn = "none"
    /\ \E c \in DxCalls :
          /\ call' = c
          /\ glob' = NumGlobals(ns, I(0))
          /\ result' = dx(NumGlobals(ns, I(0)), c.y, c.t)
    /\ UNCHANGED nbvars

(* odeint(dy, y0, t, args=(zeta, w0)) calls dy(y, t, zeta, w0) with the    *)
(* zeta of the statement and the value of the global w0                    *)
CallDy ==
    /\ status = "running"
    /\ Program[pc].op = "odeint"
    /\ Program[pc].src2 = "dy"
    /\ ~MustRaise(Program[pc], ns)
    /\ call.fn = "none"
    /\ \E w \in Freqs :
          \E c \in DyCalls(R(Program[pc].arg[1], Program[pc].arg[2]), w) :
              /\ call' = c
              /\ glob' = NumGlobals(ns, w)
              /\ result' = dy(NumGlobals(ns, w), c.y, c.t, c.zeta, c.w0)
    /\ UNCHANGED nbvars

(* the statement at pc raises: outside a try block the exception leaves    *)
(* the cell and the run stops there                                        *)
Raise ==
    /\ status = "running"
    /\ MayRaise(Program[pc], ns)
    /\ error' = [line |-> Program[pc].line, cell |-> Program[pc].cell]
    /\ IF InTry(Program[pc])
       THEN /\ Advance(Program[pc])
            /\ UNCHANGED <<ns, assignedBy>>
       ELSE /\ status' = "error"
            /\ lastSec' = Program[pc].sec
            /\ lastReads' = Reads(Program[pc], ns)
            /\ UNCHANGED <<pc, ns, assignedBy>>
    /\ UNCHANGED funvars

Next ==
    RunImport \/ RunDef \/ RunAssign \/ RunExpr \/ CallDx \/ CallDy \/ Raise

Spec == Init /\ [][Next]_vars

(***************************************************************************)
(* Properties of the notebook run (Spec).                                  *)
(***************************************************************************)

(* C1 as stated: a statement of an example section reads only names bound  *)
(* by a cell of the same section or by an import.                          *)
C1_Original ==
    lastSec \in Sections =>
        \A r \in lastReads : r.binder \in {lastSec, "import"}

(* C1 amended: a statement of an example section reads only names bound by *)
(* a cell of the same section or by an import, except that the Fourier     *)
(* transform section reads t and y2 as the damped oscillator section bound *)
(* them.                                                                   *)
C1_Amended ==
    lastSec \in Sections =>
        \A r \in lastReads :
            \/ r.binder \in {lastSec, "import"}
            \/ /\ lastSec = "fourier"
               /\ r.name \in {"t", "y2"}
               /\ r.binder = "damped"

C1_Witness ==
    /\ lastSec = "fourier"
    /\ [name |-> "y2", binder |-> "damped"] \in lastReads
    /\ ns["F"].sec = "fourier"

(* C2 as stated: no name is assigned by cells of more than one example     *)
(* section.                                                                *)
C2_Original ==
    \A n \in Names : Cardinality(assignedBy[n] \cap Sections) <= 1

ReboundNames == {"fig", "ax", "axes", "t", "x", "y1", "y2", "f", "n"}

(* C2 amended: fig, ax, axes, t, x, y1, y2, f and n are assigned by cells  *)
(* of more than one example section, each rebound by a later example; no   *)
(* other name is assigned by cells of more than one example section.       *)
C2_Amended ==
    /\ \A n \in Names \ ReboundNames :
           Cardinality(assignedBy[n] \cap Sections) <= 1
    /\ status = "done" =>
           \A n \in ReboundNames : Cardinality(assignedBy[n] \cap Sections) >= 2

C2_Witness ==
    /\ status = "done"
    /\ assignedBy["t"] = {"pendulum", "damped"}
    /\ assignedBy["y2"] = {"pendulum", "damped"}
    /\ assignedBy["F"] = {"fourier"}

(* C6: whenever an interpolant is about to be evaluated, it covers the     *)
(* sample positions 0..9 and each of the 100 evaluation points of x lies   *)
(* in the closed range [0, 9].                                             *)
C6_EvaluatedInRange ==
    (status = "running" /\ Program[pc].op = "callinterp") =>
        /\ ns[Program[pc].src2].pts = <<I(0), I(9)>>
        /\ Len(ns["x"].pts) = 100
        /\ \A i \in 1..Len(ns["x"].pts) :
               /\ 0 <= ns["x"].pts[i][1]
               /\ ns["x"].pts[i][1] <= 9 * ns["x"].pts[i][2]

C6_Witness ==
    /\ ns["y_interp1"].sec = "interpolation"
    /\ ns["y_interp2"].sec = "interpolation"
    /\ ns["y_interp2"].len = 100
    /\ ns["x"].pts[100] = I(9)

(* C7: a step in which a statement raises leaves the run stopped at that   *)
(* statement with the raised error and the namespace as it was, and once   *)
(* the run has stopped no statement runs and no name is bound.             *)
C7_ErrorPropagates ==
    [][/\ error' # error =>
            /\ status' = "error"
            /\ error'.line = Program[pc].line
            /\ ns' = ns
            /\ pc' = pc
       /\ status = "error" => (pc' = pc /\ ns' = ns /\ status' = "error")]_vars

C7_Witness ==
    /\ status = "error"
    /\ error.line = 344
    /\ ns["y1"].sec = "damped"
    /\ ns["y2"].sec = "pendulum"
    /\ ns["y3"].sec = ""

(* C8: once w is bound, N is the number of rows of y2 (the length of the   *)
(* t the damped oscillator section passed to odeint), and F and w both     *)
(* have length N.                                                          *)
C8_SpectrumLengths ==
    ns["w"].sec = "fourier" =>
        /\ ns["N"].pts = <<I(ns["y2"].len)>>
        /\ ns["y2"].sec = "damped"
        /\ ns["y2"].len = ns["t"].len
        /\ ns["F"].len = ns["N"].pts[1][1]
        /\ ns["w"].len = ns["N"].pts[1][1]

C8_Witness ==
    /\ ns["w"].sec = "fourier"
    /\ ns["w"].len = 1000
    /\ ns["F"].len = 1000

(***************************************************************************)
(* Properties of the right-hand-side functions.                            *)
(***************************************************************************)
AltNames == GlobalNames \cup {"x"}

AltGlobals == [AltNames -> Freqs]

(* C3: the pair dy returns for given arguments is the same under every     *)
(* global namespace.                                                       *)
C3_NoGlobalRead ==
    call.fn = "dy" =>
        \A G2 \in AltGlobals :
            dy(G2, call.y, call.t, call.zeta, call.w0) = result

C3_Witness ==
    /\ call.fn = "dy"
    /\ glob["w0"] = call.w0
    /\ \E G2 \in AltGlobals : G2["w0"] # call.w0
    /\ call.zeta = R(2, 10)
    /\ call.y[1] # I(0)
    /\ call.y[2] # I(0)

(* C4: for y = [x, p], dy returns [p, -2*zeta*w0*p - w0**2*x], whatever t. *)
C4_DyValue ==
    call.fn = "dy" =>
        LET x  == call.y[1][1]
            p  == call.y[2][1]
            w  == call.w0[1]
            zn == call.zeta[1]
            zd == call.zeta[2]
        IN  /\ Len(result) = 2
            /\ result[1] = call.y[2]
            /\ result[2][1] * zd = result[2][2] * (-2 * zn * w * p - zd * w * w * x)
            /\ \A t2 \in Times :
                   dy(glob, call.y, t2, call.zeta, call.w0) = result

C4_Witness ==
    /\ call.fn = "dy"
    /\ call.zeta = R(2, 10)
    /\ call.y = <<I(1), I(-1)>>
    /\ call.w0 = I(2)
    /\ result = <<I(-1), R(-16, 5)>>

(* the equations of motion as the notebook's text gives them *)
DocDx1(x, m, l) ==
    RMul(RDiv(I(6), RMul(m, RMul(l, l))),
         RDiv(RSub(RMul(I(2), x[3]), RMul(I(3), RMul(Cos(RSub(x[1], x[2])), x[4]))),
              RSub(I(16), RMul(I(9), RMul(Cos(RSub(x[1], x[2])), Cos(RSub(x[1], x[2])))))))

DocDx2(x, m, l) ==
    RMul(RDiv(I(6), RMul(m, RMul(l, l))),
         RDiv(RSub(RMul(I(8), x[4]), RMul(I(3), RMul(Cos(RSub(x[1], x[2])), x[3]))),
              RSub(I(16), RMul(I(9), RMul(Cos(RSub(x[1], x[2])), Cos(RSub(x[1], x[2])))))))

DocDx3(x, d1, d2, m, l, g) ==
    RMul(RNeg(RDiv(RMul(m, RMul(l, l)), I(2))),
         RAdd(RMul(d1, RMul(d2, Sin(RSub(x[1], x[2])))),
              RMul(I(3), RMul(RDiv(g, l), Sin(x[1])))))

DocDx4(x, d1, d2, m, l, g) ==
    RMul(RNeg(RDiv(RMul(m, RMul(l, l)), I(2))),
         RAdd(RNeg(RMul(d1, RMul(d2, Sin(RSub(x[1], x[2]))))),
              RMul(RDiv(g, l), Sin(x[2]))))

(* C5: dx returns [dx1, dx2, dx3, dx4] in the order of the state vector,   *)
(* dx1 and dx2 the documented expressions, dx3 and dx4 the documented      *)
(* expressions in the dx1 and dx2 of the same call with g = 9.82, L = 0.5, *)
(* m = 0.1, whatever t.                                                    *)
C5_DxValue ==
    call.fn = "dx" =>
        LET g == R(982, 100)
            l == R(5, 10)
            m == R(1, 10)
        IN  /\ Len(result) = 4
            /\ result[1] = DocDx1(call.y, m, l)
            /\ result[2] = DocDx2(call.y, m, l)
            /\ result[3] = DocDx3(call.y, result[1], result[2], m, l, g)
            /\ result[4] = DocDx4(call.y, result[1], result[2], m, l, g)
            /\ \A t2 \in Times : dx(glob, call.y, t2) = result

C5_Witness ==
    /\ call.fn = "dx"
    /\ glob = [g |-> R(982, 100), L |-> R(1, 2), m |-> R(1, 10)]
    /\ Sin(RSub(call.y[1], call.y[2])) # I(0)
    /\ result[1] # I(0)
    /\ result[2] # I(0)
    /\ result[3] # result[4]

====
